---- MODULE Spec2Model ----
(***************************************************************************)
(* A model of the mirbft checkpoint window                                 *)
(* (src/internal/checkpoint_window.go) and of the work-item dispatcher     *)
(* (src/unnamed/part_000, type WorkItems).                                 *)
(*                                                                         *)
(* Go values are represented as follows.                                   *)
(*   []byte          a record [nil, data]: nil tells a nil slice from an   *)
(*                   allocated one, data is the sequence of bytes.         *)
(*   map[K]V         a function; an absent key maps to V's zero value.     *)
(*   consumer.Actions a record with the fields the window fills.           *)
(*   *ActionList     the sequence of the actions of the list.              *)
(***************************************************************************)
EXTENDS Integers, Sequences, FiniteSets, TLC

VARIABLES
    cw,       \* the CheckpointWindow object
    cwCall,   \* the last call made on the window: its arguments and outcome
    byz,      \* the Byzantine nodes of the network (environment)
    sent,     \* the honest nodes whose attestation has been delivered (environment)
    wi,       \* the WorkItems object: five action streams, two event streams
    wiCall,   \* the last call made on the WorkItems: its name and argument
    emitted,  \* how many actions and events have been created so far
    walBatch, \* the action list the WAL worker is processing
    walDone,  \* the actions the WAL worker has completed
    net,      \* the last call of StandardInitialNetworkState and its result
    pa,       \* the last call of parseArgs and its result
    rp,       \* a run of arguments.execute: arguments, position, machines, output
    hp        \* the WorkItems as pointers to lists, and the lists workers hold

cwVars == <<cw, cwCall, byz, sent>>

wiVars == <<wi, wiCall, emitted, walBatch, walDone>>

toolVars == <<net, pa, rp, hp>>

vars == <<cw, cwCall, byz, sent, wi, wiCall, emitted, walBatch, walDone,
          net, pa, rp, hp>>

-----------------------------------------------------------------------------
(* Bounds of the model.                                                    *)

MaxF == 1          \* the fault parameters explored are 0..MaxF
MaxMsgs == 4       \* attestations applied to one window
MaxItems == 2      \* actions and events created in one run of the dispatcher
MaxListLen == 2    \* length of one action list or event list
MaxNodeCount == 50 \* nodeCount arguments are 0..MaxNodeCount
MaxClientCount == 2 \* clientCount arguments are 0..MaxClientCount
MaxLogLen == 2     \* number of events read from one event log

-----------------------------------------------------------------------------
(* Byte slices.                                                            *)

NilBytes == [nil |-> TRUE, data |-> <<>>]

Bytes(s) == [nil |-> FALSE, data |-> s]

\* string(b): the conversion used for the map key; nil and empty coincide.
String(b) == b.data

\* bytes.Equal(a, b): a nil argument is equivalent to an empty slice.
BytesEqual(a, b) == a.data = b.data

\* The checkpoint values that peers attest, and the values of a local
\* checkpoint result, which may also be a nil slice.
ValueSet == {Bytes(<<1>>), Bytes(<<2>>)}

ResultValueSet == ValueSet \cup {NilBytes}

AttestationSet == {Bytes(<<9>>)}

KeySet == {String(v) : v \in ValueSet}

\* The nodes of a four-node network, and the buckets of its epoch.
NodeIDs == {0, 1, 2, 3}

BucketIDs == {0, 1}

SeqNoSet == {5}

-----------------------------------------------------------------------------
(* consumer.Actions, msgs and attestations.                                *)

EmptyActions == [Broadcast |-> <<>>, Checkpoint |-> <<>>]

NodeAttestation(node, attestation) == [Node |-> node, Attestation |-> attestation]

MsgCheckpoint(value, attestation) ==
    [Type |-> "Checkpoint", Value |-> value, Attestation |-> attestation]

EpochConfig(f) == [F |-> f, Buckets |-> BucketIDs]

-----------------------------------------------------------------------------
(* The checkpoint window.  Every operation maps the window to the window   *)
(* after the call, the returned actions and whether the call panicked.     *)

\* NewCheckpointWindow without the loop that fills pendingCommits.
NewCheckpointWindow_NoPending(number, config) ==
    [Number         |-> number,
     EpochConfig    |-> config,
     PendingCommits |-> {},
     Values         |-> [k \in KeySet |-> <<>>],
     CommittedValue |-> NilBytes]

NewCheckpointWindow(number, config) ==
    [Number         |-> number,
     EpochConfig    |-> config,
     PendingCommits |-> config.Buckets,
     Values         |-> [k \in KeySet |-> <<>>],
     CommittedValue |-> NilBytes]

\* Committed testing the length of PendingCommits before the delete.
Committed_TestBeforeDelete(w, bucket) ==
    LET pending == w.PendingCommits \ {bucket}
        w2 == [w EXCEPT !.PendingCommits = pending]
    IN  IF Cardinality(w.PendingCommits) > 0
        THEN [cw |-> w2, ret |-> EmptyActions, panicked |-> FALSE]
        ELSE [cw |-> w2,
              ret |-> [EmptyActions EXCEPT !.Checkpoint = <<w.Number>>],
              panicked |-> FALSE]

Committed(w, bucket) ==
    LET pending == w.PendingCommits \ {bucket}
        w2 == [w EXCEPT !.PendingCommits = pending]
    IN  IF Cardinality(pending) > 0
        THEN [cw |-> w2, ret |-> EmptyActions, panicked |-> FALSE]
        ELSE [cw |-> w2,
              ret |-> [EmptyActions EXCEPT !.Checkpoint = <<w.Number>>],
              panicked |-> FALSE]

\* ApplyCheckpointMsg with the weak quorum f+1 in place of 2f+2.
ApplyCheckpointMsg_WeakQuorum(w, source, value, attestation) ==
    LET checkpointValueNodes ==
            Append(w.Values[String(value)], NodeAttestation(source, attestation))
        w2 == [w EXCEPT !.Values[String(value)] = checkpointValueNodes]
        w3 == IF Len(checkpointValueNodes) > w.EpochConfig.F
              THEN [w2 EXCEPT !.CommittedValue = value]
              ELSE w2
    IN  [cw |-> w3, ret |-> EmptyActions, panicked |-> FALSE]

ApplyCheckpointMsg(w, source, value, attestation) ==
    LET checkpointValueNodes ==
            Append(w.Values[String(value)], NodeAttestation(source, attestation))
        w2 == [w EXCEPT !.Values[String(value)] = checkpointValueNodes]
        w3 == IF Len(checkpointValueNodes) > 2 * w.EpochConfig.F + 1
              THEN [w2 EXCEPT !.CommittedValue = value]
              ELSE w2
    IN  [cw |-> w3, ret |-> EmptyActions, panicked |-> FALSE]

\* ApplyCheckpointResult without the nil test on CommittedValue.
ApplyCheckpointResult_NoNilTest(w, value, attestation) ==
    IF ~BytesEqual(value, w.CommittedValue)
    THEN [cw |-> w, ret |-> EmptyActions, panicked |-> TRUE]
    ELSE [cw |-> w,
          ret |-> [EmptyActions EXCEPT
                      !.Broadcast = <<MsgCheckpoint(value, attestation)>>],
          panicked |-> FALSE]

\* ApplyCheckpointResult keeping the value of a result it accepts.
ApplyCheckpointResult_StoresValue(w, value, attestation) ==
    IF ~w.CommittedValue.nil /\ ~BytesEqual(value, w.CommittedValue)
    THEN [cw |-> w, ret |-> EmptyActions, panicked |-> TRUE]
    ELSE [cw |-> [w EXCEPT !.CommittedValue = value],
          ret |-> [EmptyActions EXCEPT
                      !.Broadcast = <<MsgCheckpoint(value, attestation)>>],
          panicked |-> FALSE]

ApplyCheckpointResult(w, value, attestation) ==
    IF ~w.CommittedValue.nil /\ ~BytesEqual(value, w.CommittedValue)
    THEN [cw |-> w, ret |-> EmptyActions, panicked |-> TRUE]
    ELSE [cw |-> w,
          ret |-> [EmptyActions EXCEPT
                      !.Broadcast = <<MsgCheckpoint(value, attestation)>>],
          panicked |-> FALSE]

-----------------------------------------------------------------------------
(* Actions, messages and events of the state machine.  An action is a      *)
(* record [id, type, msg]: id numbers the actions and events in the order  *)
(* of their creation, msg is the type of the message of a Send and "none"  *)
(* for every other action.  An event is a record [id].                     *)

ActionTypes ==
    {"Send", "Hash", "AppendWriteAhead", "TruncateWriteAhead", "Commit",
     "Checkpoint", "AllocatedRequest", "CorrectRequest", "StateApplied",
     "ForwardRequest", "StateTransfer"}

MsgTypes ==
    {"Preprepare", "Prepare", "Commit", "Checkpoint", "EpochChange",
     "EpochChangeAck", "Suspect", "NewEpoch", "NewEpochEcho", "NewEpochReady",
     "FetchBatch", "ForwardBatch", "FetchRequest", "RequestAck",
     "ForwardRequest"}

ActionKinds ==
    {[type |-> t, msg |-> "none"] : t \in ActionTypes \ {"Send"}}
        \cup {[type |-> "Send", msg |-> m] : m \in MsgTypes}

\* The lists of n items numbered from first+1 on.
NewActions(first, kinds) ==
    [i \in 1 .. Len(kinds) |->
        [id |-> first + i, type |-> kinds[i].type, msg |-> kinds[i].msg]]

NewEvents(first, n) == [i \in 1 .. n |-> [id |-> first + i]]

\* The lengths of the lists that can still be created.
ListLens == 0 .. (IF MaxItems - emitted < MaxListLen
                  THEN MaxItems - emitted ELSE MaxListLen)

-----------------------------------------------------------------------------
(* statemachine.ActionList and statemachine.EventList: PushBack and        *)
(* PushBackList add at the tail.                                           *)

PushBack(list, item) == Append(list, item)

PushBackList(list, other) == list \o other

-----------------------------------------------------------------------------
(* WorkItems.  A list field holds the contents of the list it points to;   *)
(* a nil list pointer and a pointer to an empty list are both the empty    *)
(* sequence, so an accessor, which replaces nil by a new empty list,       *)
(* returns the field.                                                      *)

NewWorkItems ==
    [walActions     |-> <<>>,
     netActions     |-> <<>>,
     hashActions    |-> <<>>,
     clientActions  |-> <<>>,
     appActions     |-> <<>>,
     reqStoreEvents |-> <<>>,
     resultEvents   |-> <<>>]

StreamNames == DOMAIN NewWorkItems

ActionStreams ==
    {"walActions", "netActions", "hashActions", "clientActions", "appActions"}

ClearWALActions(w) == [w EXCEPT !.walActions = <<>>]

ClearNetActions(w) == [w EXCEPT !.netActions = <<>>]

ClearHashActions(w) == [w EXCEPT !.hashActions = <<>>]

ClearClientActions(w) == [w EXCEPT !.clientActions = <<>>]

ClearAppActions(w) == [w EXCEPT !.appActions = <<>>]

ClearReqStoreEvents(w) == [w EXCEPT !.reqStoreEvents = <<>>]

ClearResultEvents(w) == [w EXCEPT !.resultEvents = <<>>]

WALActions(w) == w.walActions

NetActions(w) == w.netActions

HashActions(w) == w.hashActions

ClientActions(w) == w.clientActions

AppActions(w) == w.appActions

ReqStoreEvents(w) == w.reqStoreEvents

ResultEvents(w) == w.resultEvents

AddHashResults(w, events) ==
    [w EXCEPT !.resultEvents = PushBackList(ResultEvents(w), events)]

AddNetResults(w, events) ==
    [w EXCEPT !.resultEvents = PushBackList(ResultEvents(w), events)]

AddAppResults(w, events) ==
    [w EXCEPT !.resultEvents = PushBackList(ResultEvents(w), events)]

\* AddClientResults pushing on ResultEvents as the other helpers do.
AddClientResults_ToResultEvents(w, events) ==
    [w EXCEPT !.resultEvents = PushBackList(ResultEvents(w), events)]

AddClientResults(w, events) ==
    [w EXCEPT !.reqStoreEvents = PushBackList(ReqStoreEvents(w), events)]

AddWALResults(w, actions) ==
    [w EXCEPT !.netActions = PushBackList(NetActions(w), actions)]

AddReqStoreResults(w, events) ==
    [w EXCEPT !.resultEvents = PushBackList(ResultEvents(w), events)]

\* The inner switch with a case for Preprepare among the safe ones.
WalDependent_PreprepareSafe(msg) ==
    CASE msg = "RequestAck"   -> FALSE
      [] msg = "Checkpoint"   -> FALSE
      [] msg = "FetchBatch"   -> FALSE
      [] msg = "ForwardBatch" -> FALSE
      [] msg = "Preprepare"   -> FALSE
      [] OTHER                -> TRUE

\* The inner switch without the case for RequestAck.
WalDependent_NoRequestAck(msg) ==
    CASE msg = "Checkpoint"   -> FALSE
      [] msg = "FetchBatch"   -> FALSE
      [] msg = "ForwardBatch" -> FALSE
      [] OTHER                -> TRUE

\* The inner switch of AddStateMachineResults on the type of the message.
WalDependent(msg) ==
    CASE msg = "RequestAck"   -> FALSE
      [] msg = "Checkpoint"   -> FALSE
      [] msg = "FetchBatch"   -> FALSE
      [] msg = "ForwardBatch" -> FALSE
      [] OTHER                -> TRUE

\* The outer switch with Checkpoint pushed on the client stream.
Dispatch_CheckpointToClient(w, action) ==
    CASE action.type = "Send" ->
             IF WalDependent(action.msg)
             THEN [w EXCEPT !.walActions = PushBack(WALActions(w), action)]
             ELSE [w EXCEPT !.netActions = PushBack(NetActions(w), action)]
      [] action.type = "Hash" ->
             [w EXCEPT !.hashActions = PushBack(HashActions(w), action)]
      [] action.type \in {"AppendWriteAhead", "TruncateWriteAhead"} ->
             [w EXCEPT !.walActions = PushBack(WALActions(w), action)]
      [] action.type \in {"Commit", "StateTransfer"} ->
             [w EXCEPT !.appActions = PushBack(AppActions(w), action)]
      [] action.type \in {"Checkpoint", "AllocatedRequest", "CorrectRequest",
                          "StateApplied"} ->
             [w EXCEPT !.clientActions = PushBack(ClientActions(w), action)]
      [] OTHER ->
             w

\* One round of the loop of AddStateMachineResults: the outer switch.
Dispatch(w, action) ==
    CASE action.type = "Send" ->
             IF WalDependent(action.msg)
             THEN [w EXCEPT !.walActions = PushBack(WALActions(w), action)]
             ELSE [w EXCEPT !.netActions = PushBack(NetActions(w), action)]
      [] action.type = "Hash" ->
             [w EXCEPT !.hashActions = PushBack(HashActions(w), action)]
      [] action.type = "AppendWriteAhead" ->
             [w EXCEPT !.walActions = PushBack(WALActions(w), action)]
      [] action.type = "TruncateWriteAhead" ->
             [w EXCEPT !.walActions = PushBack(WALActions(w), action)]
      [] action.type = "Commit" ->
             [w EXCEPT !.appActions = PushBack(AppActions(w), action)]
      [] action.type = "Checkpoint" ->
             [w EXCEPT !.appActions = PushBack(AppActions(w), action)]
      [] action.type = "AllocatedRequest" ->
             [w EXCEPT !.clientActions = PushBack(ClientActions(w), action)]
      [] action.type = "CorrectRequest" ->
             [w EXCEPT !.clientActions = PushBack(ClientActions(w), action)]
      [] action.type = "StateApplied" ->
             [w EXCEPT !.clientActions = PushBack(ClientActions(w), action)]
      [] action.type = "ForwardRequest" ->
             w
      [] action.type = "StateTransfer" ->
             [w EXCEPT !.appActions = PushBack(AppActions(w), action)]
      [] OTHER ->
             w

\* The loop run from the last action of the list to the first.
RECURSIVE AddStateMachineResults_Backwards(_, _)
AddStateMachineResults_Backwards(w, actions) ==
    IF actions = <<>>
    THEN w
    ELSE AddStateMachineResults_Backwards(
             Dispatch(w, actions[Len(actions)]),
             SubSeq(actions, 1, Len(actions) - 1))

RECURSIVE AddStateMachineResults(_, _)
AddStateMachineResults(w, actions) ==
    IF actions = <<>>
    THEN w
    ELSE AddStateMachineResults(Dispatch(w, Head(actions)), Tail(actions))

-----------------------------------------------------------------------------
(* The WAL worker: it persists the writes and truncations of the list it   *)
(* was given and returns the sends of that list, in their order.           *)

ProcessWALActions(actions) == SelectSeq(actions, LAMBDA a : a.type = "Send")

-----------------------------------------------------------------------------
(* Calls on one window, in any order.  A panic ends the process.           *)

-----------------------------------------------------------------------------
(* StandardInitialNetworkState (package mirbft).  nodeCount is an int;     *)
(* the divisions of Go truncate towards zero.  The int32 products are      *)
(* modelled for the arguments whose products fit in an int32.              *)

TruncDiv(a, b) == IF a >= 0 THEN a \div b ELSE -((-a) \div b)

NetworkStateClient(i) == [Id |-> i, Width |-> 100, LowWatermark |-> 0]

StandardInitialNetworkState(nodeCount, clientCount) ==
    LET nodes == [i \in 1 .. nodeCount |-> i - 1]
        numberOfBuckets == nodeCount
        checkpointInterval == numberOfBuckets * 5
        maxEpochLength == checkpointInterval * 10
        clients == [i \in 1 .. clientCount |-> NetworkStateClient(i - 1)]
    IN  [Config |-> [Nodes              |-> nodes,
                     F                  |-> TruncDiv(nodeCount - 1, 3),
                     NumberOfBuckets    |-> numberOfBuckets,
                     CheckpointInterval |-> checkpointInterval,
                     MaxEpochLength     |-> maxEpochLength],
         Clients |-> clients]

NoNetCall == [op |-> "none", nodeCount |-> 0, clientCount |-> 0, ret |-> <<>>]

InitNetCall == net = NoNetCall

-----------------------------------------------------------------------------
(* The mircat tool: command line flags.  A repeatable flag that is not     *)
(* given leaves its list nil; a flag that is given appends to it.          *)

NilList == [nil |-> TRUE, elems |-> <<>>]

List(s) == [nil |-> FALSE, elems |-> s]

allEventTypes ==
    {"Initialize", "LoadEntry", "CompleteInitialization", "Tick", "Step",
     "Propose", "AddResults", "ActionsReceived"}

allMsgTypes ==
    {"Preprepare", "Prepare", "Commit", "Checkpoint", "EpochChange",
     "EpochChangeAck", "Suspect", "NewEpoch", "NewEpochEcho", "NewEpochReady",
     "FetchBatch", "ForwardBatch", "FetchRequest", "RequestAck",
     "ForwardRequest"}

\* The command lines: parseErr says that the flag parser rejects the line.
FlagSets ==
    [parseErr      : BOOLEAN,
     interactive   : BOOLEAN,
     nodeIDs       : {NilList, List(<<0>>)},
     eventTypes    : {NilList, List(<<"Step", "Initialize">>)},
     notEventTypes : {NilList, List(<<"Tick">>)},
     stepTypes     : {NilList, List(<<"Commit">>)},
     notStepTypes  : {NilList, List(<<"Commit">>)},
     statusIndices : {NilList, List(<<2>>)},
     verboseText   : {FALSE}]

arguments(flags) ==
    [interactive   |-> flags.interactive,
     nodeIDs       |-> flags.nodeIDs,
     eventTypes    |-> flags.eventTypes,
     notEventTypes |-> flags.notEventTypes,
     stepTypes     |-> flags.stepTypes,
     notStepTypes  |-> flags.notStepTypes,
     verboseText   |-> flags.verboseText,
     statusIndices |-> flags.statusIndices]

\* parseArgs without the test of --statusIndex against --interactive.
parseArgs_NoStatusTest(flags) ==
    IF flags.parseErr
    THEN [args |-> <<>>, err |-> "parse"]
    ELSE IF ~flags.eventTypes.nil /\ ~flags.notEventTypes.nil
    THEN [args |-> <<>>, err |-> "cannot set both --eventType and --notEventType"]
    ELSE IF ~flags.stepTypes.nil /\ ~flags.notStepTypes.nil
    THEN [args |-> <<>>, err |-> "cannot set both --stepType and --notStepType"]
    ELSE [args |-> <<arguments(flags)>>, err |-> "nil"]

\* The result is the pair (arguments, error); args is <<>> for a nil pointer.
parseArgs(flags) ==
    IF flags.parseErr
    THEN [args |-> <<>>, err |-> "parse"]
    ELSE IF ~flags.eventTypes.nil /\ ~flags.notEventTypes.nil
    THEN [args |-> <<>>, err |-> "cannot set both --eventType and --notEventType"]
    ELSE IF ~flags.stepTypes.nil /\ ~flags.notStepTypes.nil
    THEN [args |-> <<>>, err |-> "cannot set both --stepType and --notStepType"]
    ELSE IF ~flags.statusIndices.nil /\ ~flags.interactive
    THEN [args |-> <<>>,
          err |-> "cannot set status indices for non-interactive playback"]
    ELSE [args |-> <<arguments(flags)>>, err |-> "nil"]

NoParseCall == [op |-> "none", flags |-> <<>>, ret |-> <<>>]

-----------------------------------------------------------------------------
(* The mircat tool: filters, state machines and the loop of execute.       *)
(* A recorded event is [NodeId, Type, Msg]: Type names the case of the     *)
(* state event, Msg the case of the message of a Step event.               *)

ReplayNodeIDs == {0, 1}

RecordedEvent(nodeId, type, msg) == [NodeId |-> nodeId, Type |-> type, Msg |-> msg]

\* The events the logs are made of.
LogEvents ==
    {RecordedEvent(n, t, "none") :
         n \in ReplayNodeIDs, t \in {"Initialize", "LoadEntry", "Tick", "Transfer"}}
    \cup {RecordedEvent(n, "Step", m) :
              n \in ReplayNodeIDs, m \in {"Preprepare", "Commit"}}

Elems(list) == {list.elems[i] : i \in 1 .. Len(list.elems)}

excludeByType(value, include, exclude) ==
    IF ~include.nil
    THEN value \notin Elems(include)
    ELSE value \in Elems(exclude)

excludedByNodeID(re, nodeIDs) ==
    IF nodeIDs.nil
    THEN FALSE
    ELSE re.NodeId \notin Elems(nodeIDs)

eventTypeText(event) ==
    IF event.Type = "Transfer" THEN "StateTransfer" ELSE event.Type

shouldPrint(a, event) ==
    IF excludeByType(eventTypeText(event), a.eventTypes, a.notEventTypes)
    THEN FALSE
    ELSE IF event.Type = "Step"
    THEN ~excludeByType(event.Msg, a.stepTypes, a.notStepTypes)
    ELSE TRUE

\* StateMachine.ApplyEvent: the machine is the list of the events applied.
ApplyEvent(machine, event) == Append(machine, event)

\* apply that creates the machine of a node on its first event of any type.
apply_CreateOnDemand(nodes, event) ==
    IF event.Type = "Initialize" \/ event.NodeId \notin DOMAIN nodes
    THEN [panicked |-> FALSE,
          nodes |-> [n \in DOMAIN nodes \cup {event.NodeId} |->
                        IF n = event.NodeId THEN ApplyEvent(<<>>, event)
                        ELSE nodes[n]]]
    ELSE [panicked |-> FALSE,
          nodes |-> [nodes EXCEPT ![event.NodeId] = ApplyEvent(@, event)]]

\* stateMachines.apply: nodes maps the initialised nodes to their machines.
apply(nodes, event) ==
    IF event.Type = "Initialize"
    THEN [panicked |-> FALSE,
          nodes |-> [n \in DOMAIN nodes \cup {event.NodeId} |->
                        IF n = event.NodeId THEN ApplyEvent(<<>>, event)
                        ELSE nodes[n]]]
    ELSE IF event.NodeId \notin DOMAIN nodes
    THEN [panicked |-> TRUE, nodes |-> nodes]
    ELSE [panicked |-> FALSE,
          nodes |-> [nodes EXCEPT ![event.NodeId] = ApplyEvent(@, event)]]

\* One line of output: a printed event or a status (n is the index), or the
\* summary of a node (n is the node).
OutputLine(kind, n) == [kind |-> kind, n |-> n]

RECURSIVE SortedNodeIDs(_)
SortedNodeIDs(ids) ==
    IF ids = {} THEN <<>>
    ELSE LET least == CHOOSE n \in ids : \A m \in ids : n <= m
         IN  <<least>> \o SortedNodeIDs(ids \ {least})

\* The summary lines written before the first node without a machine.
RECURSIVE Summaries(_, _)
Summaries(nodeIDs, nodes) ==
    IF nodeIDs = <<>> \/ Head(nodeIDs) \notin DOMAIN nodes THEN <<>>
    ELSE <<OutputLine("summary", Head(nodeIDs))>> \o Summaries(Tail(nodeIDs), nodes)

NoReplay ==
    [phase |-> "none", args |-> <<>>, index |-> 0, read |-> <<>>,
     nodes |-> <<>>, applied |-> <<>>, output |-> <<>>]

\* The arguments main passes to execute: those parseArgs returns.
ReplayArguments ==
    {parseArgs(flags).args[1] :
         flags \in {f \in FlagSets : parseArgs(f).err = "nil"}}

-----------------------------------------------------------------------------
(* WorkItems with its pointers.  heap maps each list object to its         *)
(* contents, ref gives the object each field of the WorkItems points to,   *)
(* held gives for each stream the object its worker has taken (0 for       *)
(* none) and whether the stream has been cleared since.                    *)

StreamOrder ==
    <<"walActions", "netActions", "hashActions", "clientActions",
      "appActions", "reqStoreEvents", "resultEvents">>

NotHeld == [obj |-> 0, cleared |-> FALSE]

NewWorkItemsRefs ==
    [heap    |-> [o \in 1 .. Len(StreamOrder) |-> NewWorkItems[StreamOrder[o]]],
     ref     |-> [s \in StreamNames |->
                     CHOOSE o \in 1 .. Len(StreamOrder) : StreamOrder[o] = s],
     held    |-> [s \in StreamNames |-> NotHeld],
     emitted |-> 0]

\* The lists the fields point to.
Deref(h) == [s \in StreamNames |-> h.heap[h.ref[s]]]

\* The objects a field or a worker points to; the others are garbage.
Live(h) ==
    {h.ref[s] : s \in StreamNames}
        \cup {h.held[s].obj : s \in {t \in StreamNames : h.held[t].obj # 0}}

Collect(h) == [h EXCEPT !.heap = [o \in Live(h) |-> h.heap[o]]]

\* PushBack and PushBackList change the list an accessor returns in place:
\* w holds the new contents of the lists the fields point to.
PushedInPlace(h, w) ==
    [h EXCEPT !.heap =
        [o \in DOMAIN h.heap |->
            IF \E s \in StreamNames : h.ref[s] = o
            THEN w[CHOOSE s \in StreamNames : h.ref[s] = o]
            ELSE h.heap[o]]]

NewList(h) ==
    CHOOSE o \in 1 .. (Cardinality(DOMAIN h.heap) + 1) : o \notin DOMAIN h.heap

\* Clear emptying the list the field points to instead of replacing it.
ClearStream_InPlace(h, stream) ==
    Collect([h EXCEPT !.heap[h.ref[stream]] = <<>>,
                      !.held[stream].cleared = (h.held[stream].obj # 0)])

\* Clear of a stream: the field points to a new empty list.
ClearStream(h, stream) ==
    Collect([h EXCEPT !.heap = (h.heap @@ (NewList(h) :> <<>>)),
                      !.ref[stream] = NewList(h),
                      !.held[stream].cleared = (h.held[stream].obj # 0)])

-----------------------------------------------------------------------------
(* State of the tools before they are used.                                *)

InitTools ==
    /\ InitNetCall
    /\ pa = NoParseCall
    /\ rp = NoReplay
    /\ hp = NewWorkItemsRefs

NoCall == [op |-> "none", source |-> 0, bucket |-> 0, value |-> NilBytes,
           attestation |-> NilBytes, ret |-> EmptyActions, panicked |-> FALSE]

NoWICall == [op |-> "none", actions |-> <<>>, events |-> <<>>]

InitWorkItems ==
    /\ wi = NewWorkItems
    /\ wiCall = NoWICall
    /\ emitted = 0
    /\ walBatch = <<>>
    /\ walDone = {}
    /\ InitTools

NumAttestations(w) ==
    LET keys == KeySet
        RECURSIVE Sum(_)
        Sum(S) == IF S = {} THEN 0
                  ELSE LET k == CHOOSE x \in S : TRUE
                       IN  Len(w.Values[k]) + Sum(S \ {k})
    IN  Sum(keys)

InitCW ==
    /\ \E f \in 0 .. MaxF, n \in SeqNoSet :
           cw = NewCheckpointWindow(n, EpochConfig(f))
    /\ cwCall = NoCall
    /\ byz = {}
    /\ sent = {}
    /\ InitWorkItems

CallCommitted(bucket) ==
    /\ ~cwCall.panicked
    /\ LET r == Committed(cw, bucket)
       IN  /\ cw' = r.cw
           /\ cwCall' = [NoCall EXCEPT !.op = "Committed", !.bucket = bucket,
                                       !.ret = r.ret, !.panicked = r.panicked]
    /\ UNCHANGED <<byz, sent>>
    /\ UNCHANGED <<wiVars, toolVars>>

CallApplyCheckpointMsg(source, value, attestation) ==
    /\ ~cwCall.panicked
    /\ NumAttestations(cw) < MaxMsgs
    /\ LET r == ApplyCheckpointMsg(cw, source, value, attestation)
       IN  /\ cw' = r.cw
           /\ cwCall' = [NoCall EXCEPT !.op = "ApplyCheckpointMsg",
                                       !.source = source, !.value = value,
                                       !.attestation = attestation,
                                       !.ret = r.ret, !.panicked = r.panicked]
    /\ UNCHANGED <<wiVars, toolVars>>

CallApplyCheckpointResult(value, attestation) ==
    /\ ~cwCall.panicked
    /\ LET r == ApplyCheckpointResult(cw, value, attestation)
       IN  /\ cw' = r.cw
           /\ cwCall' = [NoCall EXCEPT !.op = "ApplyCheckpointResult",
                                       !.value = value,
                                       !.attestation = attestation,
                                       !.ret = r.ret, !.panicked = r.panicked]
    /\ UNCHANGED <<byz, sent>>
    /\ UNCHANGED <<wiVars, toolVars>>

NextCW ==
    \/ \E b \in BucketIDs : CallCommitted(b)
    \/ \E s \in NodeIDs, v \in ValueSet, a \in AttestationSet :
           CallApplyCheckpointMsg(s, v, a) /\ UNCHANGED <<byz, sent>>
    \/ \E v \in ResultValueSet, a \in AttestationSet :
           CallApplyCheckpointResult(v, a)

SpecCW == InitCW /\ [][NextCW]_vars

-----------------------------------------------------------------------------
(* A network of 3f+1 nodes, at most f of them Byzantine.  An honest node   *)
(* sends one attestation, for the correct value; a Byzantine node sends    *)
(* any number of attestations for any values.                              *)

CorrectValue == Bytes(<<1>>)

NetworkNodes(f) == 0 .. (3 * f)

InitBFT ==
    /\ \E f \in 0 .. MaxF, n \in SeqNoSet :
           /\ cw = NewCheckpointWindow(n, EpochConfig(f))
           /\ byz \in {B \in SUBSET NetworkNodes(f) : Cardinality(B) <= f}
    /\ cwCall = NoCall
    /\ sent = {}
    /\ InitWorkItems

HonestAttest(node, attestation) ==
    /\ node \in NetworkNodes(cw.EpochConfig.F) \ byz
    /\ node \notin sent
    /\ CallApplyCheckpointMsg(node, CorrectValue, attestation)
    /\ sent' = sent \cup {node}
    /\ UNCHANGED byz

ByzantineAttest(node, value, attestation) ==
    /\ node \in byz
    /\ CallApplyCheckpointMsg(node, value, attestation)
    /\ UNCHANGED <<byz, sent>>

NextBFT ==
    \/ \E n \in NetworkNodes(MaxF), a \in AttestationSet : HonestAttest(n, a)
    \/ \E n \in NetworkNodes(MaxF), v \in ValueSet, a \in AttestationSet :
           ByzantineAttest(n, v, a)

SpecBFT == InitBFT /\ [][NextBFT]_vars

-----------------------------------------------------------------------------
(* The dispatcher: the serializer adds the action lists of the state       *)
(* machine and the results of the workers, hands a stream to its worker    *)
(* and clears it.  The WAL worker is handed the WAL stream when it is idle *)
(* and gives its results back through AddWALResults.                       *)

WICall(op, actions, events) == [op |-> op, actions |-> actions, events |-> events]

Ids(list) == {list[i].id : i \in 1 .. Len(list)}

InitWI ==
    /\ cw = NewCheckpointWindow(0, EpochConfig(0))
    /\ cwCall = NoCall
    /\ byz = {}
    /\ sent = {}
    /\ InitWorkItems

CallAddStateMachineResults(kinds) ==
    /\ emitted + Len(kinds) <= MaxItems
    /\ LET actions == NewActions(emitted, kinds)
       IN  /\ wi' = AddStateMachineResults(wi, actions)
           /\ wiCall' = WICall("AddStateMachineResults", actions, <<>>)
    /\ emitted' = emitted + Len(kinds)
    /\ UNCHANGED <<walBatch, walDone>>
    /\ UNCHANGED <<cwVars, toolVars>>

CallAddHashResults(n) ==
    /\ emitted + n <= MaxItems
    /\ LET events == NewEvents(emitted, n)
       IN  /\ wi' = AddHashResults(wi, events)
           /\ wiCall' = WICall("AddHashResults", <<>>, events)
    /\ emitted' = emitted + n
    /\ UNCHANGED <<walBatch, walDone>>
    /\ UNCHANGED <<cwVars, toolVars>>

CallAddNetResults(n) ==
    /\ emitted + n <= MaxItems
    /\ LET events == NewEvents(emitted, n)
       IN  /\ wi' = AddNetResults(wi, events)
           /\ wiCall' = WICall("AddNetResults", <<>>, events)
    /\ emitted' = emitted + n
    /\ UNCHANGED <<walBatch, walDone>>
    /\ UNCHANGED <<cwVars, toolVars>>

CallAddAppResults(n) ==
    /\ emitted + n <= MaxItems
    /\ LET events == NewEvents(emitted, n)
       IN  /\ wi' = AddAppResults(wi, events)
           /\ wiCall' = WICall("AddAppResults", <<>>, events)
    /\ emitted' = emitted + n
    /\ UNCHANGED <<walBatch, walDone>>
    /\ UNCHANGED <<cwVars, toolVars>>

CallAddClientResults(n) ==
    /\ emitted + n <= MaxItems
    /\ LET events == NewEvents(emitted, n)
       IN  /\ wi' = AddClientResults(wi, events)
           /\ wiCall' = WICall("AddClientResults", <<>>, events)
    /\ emitted' = emitted + n
    /\ UNCHANGED <<walBatch, walDone>>
    /\ UNCHANGED <<cwVars, toolVars>>

CallAddReqStoreResults(n) ==
    /\ emitted + n <= MaxItems
    /\ LET events == NewEvents(emitted, n)
       IN  /\ wi' = AddReqStoreResults(wi, events)
           /\ wiCall' = WICall("AddReqStoreResults", <<>>, events)
    /\ emitted' = emitted + n
    /\ UNCHANGED <<walBatch, walDone>>
    /\ UNCHANGED <<cwVars, toolVars>>

\* The serializer hands the WAL stream to the idle WAL worker and clears it.
TakeWALActions ==
    /\ walBatch = <<>>
    /\ WALActions(wi) # <<>>
    /\ walBatch' = WALActions(wi)
    /\ wi' = ClearWALActions(wi)
    /\ wiCall' = WICall("ClearWALActions", <<>>, <<>>)
    /\ UNCHANGED <<emitted, walDone>>
    /\ UNCHANGED <<cwVars, toolVars>>

\* The WAL worker has persisted its list; its sends are handed back.
WALWorkerDone ==
    /\ walBatch # <<>>
    /\ LET actions == ProcessWALActions(walBatch)
       IN  /\ wi' = AddWALResults(wi, actions)
           /\ wiCall' = WICall("AddWALResults", actions, <<>>)
    /\ walDone' = walDone \cup Ids(walBatch)
    /\ walBatch' = <<>>
    /\ UNCHANGED emitted
    /\ UNCHANGED <<cwVars, toolVars>>

CallClearNetActions ==
    /\ NetActions(wi) # <<>>
    /\ wi' = ClearNetActions(wi)
    /\ wiCall' = WICall("ClearNetActions", <<>>, <<>>)
    /\ UNCHANGED <<emitted, walBatch, walDone>>
    /\ UNCHANGED <<cwVars, toolVars>>

CallClearHashActions ==
    /\ HashActions(wi) # <<>>
    /\ wi' = ClearHashActions(wi)
    /\ wiCall' = WICall("ClearHashActions", <<>>, <<>>)
    /\ UNCHANGED <<emitted, walBatch, walDone>>
    /\ UNCHANGED <<cwVars, toolVars>>

CallClearClientActions ==
    /\ ClientActions(wi) # <<>>
    /\ wi' = ClearClientActions(wi)
    /\ wiCall' = WICall("ClearClientActions", <<>>, <<>>)
    /\ UNCHANGED <<emitted, walBatch, walDone>>
    /\ UNCHANGED <<cwVars, toolVars>>

CallClearAppActions ==
    /\ AppActions(wi) # <<>>
    /\ wi' = ClearAppActions(wi)
    /\ wiCall' = WICall("ClearAppActions", <<>>, <<>>)
    /\ UNCHANGED <<emitted, walBatch, walDone>>
    /\ UNCHANGED <<cwVars, toolVars>>

CallClearReqStoreEvents ==
    /\ ReqStoreEvents(wi) # <<>>
    /\ wi' = ClearReqStoreEvents(wi)
    /\ wiCall' = WICall("ClearReqStoreEvents", <<>>, <<>>)
    /\ UNCHANGED <<emitted, walBatch, walDone>>
    /\ UNCHANGED <<cwVars, toolVars>>

CallClearResultEvents ==
    /\ ResultEvents(wi) # <<>>
    /\ wi' = ClearResultEvents(wi)
    /\ wiCall' = WICall("ClearResultEvents", <<>>, <<>>)
    /\ UNCHANGED <<emitted, walBatch, walDone>>
    /\ UNCHANGED <<cwVars, toolVars>>

NextWI ==
    \/ \E n \in ListLens : \E kinds \in [1 .. n -> ActionKinds] :
           CallAddStateMachineResults(kinds)
    \/ \E n \in ListLens : CallAddHashResults(n)
    \/ \E n \in ListLens : CallAddNetResults(n)
    \/ \E n \in ListLens : CallAddAppResults(n)
    \/ \E n \in ListLens : CallAddClientResults(n)
    \/ \E n \in ListLens : CallAddReqStoreResults(n)
    \/ TakeWALActions
    \/ WALWorkerDone
    \/ CallClearNetActions
    \/ CallClearHashActions
    \/ CallClearClientActions
    \/ CallClearAppActions
    \/ CallClearReqStoreEvents
    \/ CallClearResultEvents

SpecWI == InitWI /\ [][NextWI]_vars

-----------------------------------------------------------------------------
(* A network of 3f+1 nodes in which every node contributes at most one     *)
(* attestation, for a value of its choice, to the window.                  *)

InitOnce ==
    /\ \E f \in 0 .. MaxF, n \in SeqNoSet :
           cw = NewCheckpointWindow(n, EpochConfig(f))
    /\ cwCall = NoCall
    /\ byz = {}
    /\ sent = {}
    /\ InitWorkItems

AttestOnce(node, value, attestation) ==
    /\ node \in NetworkNodes(cw.EpochConfig.F)
    /\ node \notin sent
    /\ CallApplyCheckpointMsg(node, value, attestation)
    /\ sent' = sent \cup {node}
    /\ UNCHANGED byz

NextOnce ==
    \E n \in NetworkNodes(MaxF), v \in ValueSet, a \in AttestationSet :
        AttestOnce(n, v, a)

SpecOnce == InitOnce /\ [][NextOnce]_vars

-----------------------------------------------------------------------------
(* Calls of StandardInitialNetworkState.                                   *)

InitNet ==
    /\ cw = NewCheckpointWindow(0, EpochConfig(0))
    /\ cwCall = NoCall
    /\ byz = {}
    /\ sent = {}
    /\ InitWorkItems

CallStandardInitialNetworkState(nodeCount, clientCount) ==
    /\ net' = [op |-> "StandardInitialNetworkState",
               nodeCount |-> nodeCount, clientCount |-> clientCount,
               ret |-> StandardInitialNetworkState(nodeCount, clientCount)]
    /\ UNCHANGED <<cwVars, wiVars, pa, rp, hp>>

NextNet ==
    \E n \in 0 .. MaxNodeCount, c \in 0 .. MaxClientCount :
        CallStandardInitialNetworkState(n, c)

SpecNet == InitNet /\ [][NextNet]_vars

-----------------------------------------------------------------------------
(* Calls of parseArgs.                                                     *)

InitArgs == InitNet

CallParseArgs(flags) ==
    /\ pa' = [op |-> "parseArgs", flags |-> flags, ret |-> parseArgs(flags)]
    /\ UNCHANGED <<cwVars, wiVars, net, rp, hp>>

NextArgs == \E flags \in FlagSets : CallParseArgs(flags)

SpecArgs == InitArgs /\ [][NextArgs]_vars

-----------------------------------------------------------------------------
(* A run of arguments.execute over an event log.  rp.read lists the events *)
(* the reader has returned, rp.applied the indices of the events passed to *)
(* ApplyEvent, rp.output the lines written.                                *)

InitReplay == InitNet

\* execute up to its loop: the state machines and the reader are created.
StartExecute(a) ==
    /\ rp.phase = "none"
    /\ rp' = [rp EXCEPT !.phase = "reading", !.args = <<a>>, !.index = 0,
                        !.nodes = <<>>]
    /\ UNCHANGED <<cwVars, wiVars, net, pa, hp>>

\* ExecuteStep applying an event only when the event is printed.
ExecuteStep_ApplyOnlyPrinted(event) ==
    /\ rp.phase = "reading"
    /\ rp.index < MaxLogLen
    /\ LET a == rp.args[1]
           index == rp.index + 1
           statusIndex == index \in Elems(a.statusIndices)
           printed == statusIndex \/ shouldPrint(a, event)
           out == IF printed THEN Append(rp.output, OutputLine("event", index))
                  ELSE rp.output
           ap == apply(rp.nodes, event)
           read == [rp EXCEPT !.index = index, !.read = Append(@, event)]
       IN  IF excludedByNodeID(event, a.nodeIDs)
           THEN rp' = read
           ELSE IF ~a.interactive \/ ~printed
           THEN rp' = [read EXCEPT !.output = out]
           ELSE IF ap.panicked
           THEN rp' = [read EXCEPT !.output = out, !.phase = "panicked"]
           ELSE rp' = [read EXCEPT
                         !.nodes = ap.nodes,
                         !.applied = Append(@, index),
                         !.output = IF statusIndex
                                    THEN Append(out, OutputLine("status", index))
                                    ELSE out]
    /\ UNCHANGED <<cwVars, wiVars, net, pa, hp>>

\* One pass of the loop of execute, for the event the reader returns.
ExecuteStep(event) ==
    /\ rp.phase = "reading"
    /\ rp.index < MaxLogLen
    /\ LET a == rp.args[1]
           index == rp.index + 1
           statusIndex == index \in Elems(a.statusIndices)
           printed == statusIndex \/ shouldPrint(a, event)
           out == IF printed THEN Append(rp.output, OutputLine("event", index))
                  ELSE rp.output
           ap == apply(rp.nodes, event)
           read == [rp EXCEPT !.index = index, !.read = Append(@, event)]
       IN  IF excludedByNodeID(event, a.nodeIDs)
           THEN rp' = read
           ELSE IF ~a.interactive
           THEN rp' = [read EXCEPT !.output = out]
           ELSE IF ap.panicked
           THEN rp' = [read EXCEPT !.output = out, !.phase = "panicked"]
           ELSE rp' = [read EXCEPT
                         !.nodes = ap.nodes,
                         !.applied = Append(@, index),
                         !.output = IF statusIndex
                                    THEN Append(out, OutputLine("status", index))
                                    ELSE out]
    /\ UNCHANGED <<cwVars, wiVars, net, pa, hp>>

\* The reader returns an error other than the end of the log.
ReadFails ==
    /\ rp.phase = "reading"
    /\ rp' = [rp EXCEPT !.phase = "failed"]
    /\ UNCHANGED <<cwVars, wiVars, net, pa, hp>>

\* The reader returns the end of the log: the summary of the nodes.  The
\* summary of a node without a machine dereferences a nil pointer.
EndOfLog ==
    /\ rp.phase = "reading"
    /\ LET a == rp.args[1]
           nodeIDs == IF a.nodeIDs.nil THEN SortedNodeIDs(DOMAIN rp.nodes)
                      ELSE a.nodeIDs.elems
           lines == Summaries(nodeIDs, rp.nodes)
       IN  IF ~a.interactive
           THEN rp' = [rp EXCEPT !.phase = "done"]
           ELSE rp' = [rp EXCEPT
                         !.output = @ \o lines,
                         !.phase = IF Len(lines) = Len(nodeIDs) THEN "done"
                                   ELSE "panicked"]
    /\ UNCHANGED <<cwVars, wiVars, net, pa, hp>>

NextReplay ==
    \/ \E a \in ReplayArguments : StartExecute(a)
    \/ \E event \in LogEvents : ExecuteStep(event)
    \/ ReadFails
    \/ EndOfLog

SpecReplay == InitReplay /\ [][NextReplay]_vars

-----------------------------------------------------------------------------
(* The WorkItems and the workers of its streams, with pointers.  A worker  *)
(* takes the list an accessor returns; the serializer clears the stream    *)
(* and goes on adding results while the worker holds the list.             *)

InitOwn == InitNet

\* The actions the state machine returns here: one kind for each stream an
\* action can go to, and one that goes to none.
OwnActionKinds ==
    {k \in ActionKinds :
         \/ k.type \in {"Hash", "AppendWriteAhead", "Commit", "AllocatedRequest",
                        "ForwardRequest"}
         \/ k.msg \in {"Preprepare", "RequestAck"}}

OwnListLens ==
    0 .. (IF MaxItems - hp.emitted < MaxListLen THEN MaxItems - hp.emitted
          ELSE MaxListLen)

OwnAddStateMachineResults(kinds) ==
    /\ LET actions == NewActions(hp.emitted, kinds)
           h == PushedInPlace(hp, AddStateMachineResults(Deref(hp), actions))
       IN  hp' = [h EXCEPT !.emitted = @ + Len(kinds)]
    /\ UNCHANGED <<cwVars, wiVars, net, pa, rp>>

OwnAddResults(name, n) ==
    /\ LET events == NewEvents(hp.emitted, n)
           w == Deref(hp)
           added == CASE name = "AddHashResults" -> AddHashResults(w, events)
                      [] name = "AddNetResults" -> AddNetResults(w, events)
                      [] name = "AddAppResults" -> AddAppResults(w, events)
                      [] name = "AddClientResults" -> AddClientResults(w, events)
                      [] name = "AddReqStoreResults" -> AddReqStoreResults(w, events)
           h == PushedInPlace(hp, added)
       IN  hp' = [h EXCEPT !.emitted = @ + n]
    /\ UNCHANGED <<cwVars, wiVars, net, pa, rp>>

\* The worker of a stream receives the list of the stream.
OwnTake(stream) ==
    /\ hp.held[stream].obj = 0
    /\ Deref(hp)[stream] # <<>>
    /\ hp' = [hp EXCEPT !.held[stream] =
                            [obj |-> hp.ref[stream], cleared |-> FALSE]]
    /\ UNCHANGED <<cwVars, wiVars, net, pa, rp>>

OwnClear(stream) ==
    /\ Deref(hp)[stream] # <<>>
    /\ hp' = ClearStream(hp, stream)
    /\ UNCHANGED <<cwVars, wiVars, net, pa, rp>>

\* The worker of a stream is done with its list; the WAL worker hands the
\* sends of its list back.
OwnWorkerDone(stream) ==
    /\ hp.held[stream].obj # 0
    /\ hp.held[stream].cleared
    /\ LET batch == hp.heap[hp.held[stream].obj]
           h == IF stream = "walActions"
                THEN PushedInPlace(hp, AddWALResults(Deref(hp),
                                                     ProcessWALActions(batch)))
                ELSE hp
       IN  hp' = Collect([h EXCEPT !.held[stream] = NotHeld])
    /\ UNCHANGED <<cwVars, wiVars, net, pa, rp>>

NextOwn ==
    \/ \E n \in OwnListLens : \E kinds \in [1 .. n -> OwnActionKinds] :
           OwnAddStateMachineResults(kinds)
    \/ \E n \in OwnListLens :
           \E name \in {"AddHashResults", "AddNetResults", "AddAppResults",
                        "AddClientResults", "AddReqStoreResults"} :
               OwnAddResults(name, n)
    \/ \E stream \in StreamNames : OwnTake(stream)
    \/ \E stream \in StreamNames : OwnClear(stream)
    \/ \E stream \in StreamNames : OwnWorkerDone(stream)

SpecOwn == InitOwn /\ [][NextOwn]_vars

-----------------------------------------------------------------------------
(* Properties of the checkpoint window.                                    *)

DistinctSources(w, value) ==
    Cardinality({w.Values[String(value)][i].Node :
                    i \in 1 .. Len(w.Values[String(value)])})

\* C1: CommittedValue is v exactly when strictly more than 2f+1 distinct
\* source nodes have attested v: it is never v with fewer distinct sources,
\* and it is set once some value has that many distinct sources.
C1_QuorumOfDistinctSources ==
    \A v \in ValueSet :
        /\ cw.CommittedValue = v =>
               DistinctSources(cw, v) > 2 * cw.EpochConfig.F + 1
        /\ DistinctSources(cw, v) > 2 * cw.EpochConfig.F + 1 =>
               ~cw.CommittedValue.nil

\* C2: once CommittedValue is set, no call changes it.
C2_CommittedValueSetOnce ==
    [][~cw.CommittedValue.nil => cw'.CommittedValue = cw.CommittedValue]_vars

\* C3: with at most f Byzantine nodes out of 3f+1, CommittedValue is only
\* ever set to a value that an honest node has attested.
C3_CommittedValueAttestedByHonest ==
    ~cw.CommittedValue.nil =>
        /\ cw.CommittedValue = CorrectValue
        /\ sent # {}

\* C4: ApplyCheckpointResult panics and returns nothing when CommittedValue
\* is set and its bytes differ from value's; otherwise it returns exactly
\* one broadcast of a Checkpoint message carrying value and attestation.
C4_ApplyCheckpointResultOutcome ==
    cwCall.op = "ApplyCheckpointResult" =>
        IF ~cw.CommittedValue.nil /\ cw.CommittedValue.data # cwCall.value.data
        THEN cwCall.panicked /\ cwCall.ret = EmptyActions
        ELSE /\ ~cwCall.panicked
             /\ cwCall.ret.Checkpoint = <<>>
             /\ cwCall.ret.Broadcast =
                    <<[Type |-> "Checkpoint", Value |-> cwCall.value,
                       Attestation |-> cwCall.attestation]>>

C4_Witness ==
    /\ cwCall.op = "ApplyCheckpointResult"
    /\ cwCall.panicked
    /\ ~cw.CommittedValue.nil

-----------------------------------------------------------------------------
(* Properties of the dispatcher.                                           *)

NetSafeMsgs == {"RequestAck", "Checkpoint", "FetchBatch", "ForwardBatch"}

IsWalSend(a) == a.type = "Send" /\ a.msg \notin NetSafeMsgs

IsNetSend(a) == a.type = "Send" /\ a.msg \in NetSafeMsgs

\* How many times item x is on the list.
Count(list, x) == Cardinality({i \in 1 .. Len(list) : list[i] = x})

IsPrefix(s, t) == Len(s) <= Len(t) /\ SubSeq(t, 1, Len(s)) = s

\* s can be obtained from t by deleting items, the order being kept.
RECURSIVE IsSubseq(_, _)
IsSubseq(s, t) ==
    IF s = <<>> THEN TRUE
    ELSE IF t = <<>> THEN FALSE
    ELSE IF Head(s) = Head(t) THEN IsSubseq(Tail(s), Tail(t))
    ELSE IsSubseq(s, Tail(t))

SortedById(list) ==
    \A i, j \in 1 .. Len(list) : i < j => list[i].id < list[j].id

\* C5: a Send of a message other than RequestAck, Checkpoint, FetchBatch and
\* ForwardBatch is put on the WAL stream and not on the Net stream by
\* AddStateMachineResults, and it is on the Net stream only once the WAL
\* worker has completed it.
C5_WalSendsReachNetAfterWal ==
    /\ \A i \in 1 .. Len(wi.netActions) :
           IsWalSend(wi.netActions[i]) => wi.netActions[i].id \in walDone
    /\ wiCall.op = "AddStateMachineResults" =>
           \A i \in 1 .. Len(wiCall.actions) :
               IsWalSend(wiCall.actions[i]) =>
                   /\ Count(wi.walActions, wiCall.actions[i]) = 1
                   /\ Count(wi.netActions, wiCall.actions[i]) = 0

C5_Witness ==
    /\ wiCall.op = "AddWALResults"
    /\ \E i \in 1 .. Len(wi.netActions) :
           /\ IsWalSend(wi.netActions[i])
           /\ wi.netActions[i].id \in walDone

\* C6: a Send of RequestAck, Checkpoint, FetchBatch or ForwardBatch is at the
\* tail of the Net stream when the AddStateMachineResults call that received
\* it returns, whatever the WAL worker is doing, and it is never on the WAL
\* stream nor in the list of the WAL worker.
C6_NetSendsGoStraightToNet ==
    /\ \A i \in 1 .. Len(wi.walActions) : ~IsNetSend(wi.walActions[i])
    /\ \A i \in 1 .. Len(walBatch) : ~IsNetSend(walBatch[i])
    /\ wiCall.op = "AddStateMachineResults" =>
           LET direct == SelectSeq(wiCall.actions, IsNetSend)
               n == Len(wi.netActions)
           IN  /\ Len(direct) <= n
               /\ SubSeq(wi.netActions, n - Len(direct) + 1, n) = direct

C6_Witness ==
    /\ wiCall.op = "AddStateMachineResults"
    /\ walBatch # <<>>
    /\ \E i \in 1 .. Len(wiCall.actions) :
           /\ IsNetSend(wiCall.actions[i])
           /\ Count(wi.netActions, wiCall.actions[i]) = 1

\* C7: after AddStateMachineResults every action of the list it was given is
\* on one of the five action streams.
C7_EveryActionHasAStream ==
    wiCall.op = "AddStateMachineResults" =>
        \A i \in 1 .. Len(wiCall.actions) :
            \E s \in ActionStreams : Count(wi[s], wiCall.actions[i]) >= 1

\* The stream of the classification table for the actions that are not sends.
TableStream(type) ==
    CASE type \in {"AppendWriteAhead", "TruncateWriteAhead"} -> "walActions"
      [] type = "Hash" -> "hashActions"
      [] type \in {"Commit", "Checkpoint", "StateTransfer"} -> "appActions"
      [] type \in {"AllocatedRequest", "CorrectRequest", "StateApplied"} ->
             "clientActions"

TableTypes ==
    {"AppendWriteAhead", "TruncateWriteAhead", "Hash", "Commit", "Checkpoint",
     "StateTransfer", "AllocatedRequest", "CorrectRequest", "StateApplied"}

\* C8: AddStateMachineResults puts AppendWriteAhead and TruncateWriteAhead on
\* the WAL stream, Hash on the Hash stream, Commit, Checkpoint and
\* StateTransfer on the App stream, AllocatedRequest, CorrectRequest and
\* StateApplied on the Client stream: once, and on no other stream.
C8_ClassificationTable ==
    wiCall.op = "AddStateMachineResults" =>
        \A i \in 1 .. Len(wiCall.actions) :
            LET a == wiCall.actions[i]
            IN  a.type \in TableTypes =>
                    \A s \in ActionStreams :
                        Count(wi[s], a) = IF s = TableStream(a.type) THEN 1 ELSE 0

C8_Witness ==
    /\ wiCall.op = "AddStateMachineResults"
    /\ Len(wiCall.actions) = 2
    /\ wiCall.actions[1].type = "Checkpoint"
    /\ wiCall.actions[2].type = "StateApplied"
    /\ Count(wi.appActions, wiCall.actions[1]) = 1
    /\ Count(wi.clientActions, wiCall.actions[2]) = 1

\* The list given to the last call.
CallInput(call) == IF call.actions # <<>> THEN call.actions ELSE call.events

\* C9: a call either empties a stream or leaves what is on it in place and
\* adds after it items of its argument, in the order of the argument; and the
\* WAL stream holds its actions in the order of their emission, so that a
\* TruncateWriteAhead emitted before an AppendWriteAhead precedes it.
C9_NoReorderWithinStream ==
    [][/\ \A s \in StreamNames :
              \/ wi'[s] = <<>>
              \/ /\ IsPrefix(wi[s], wi'[s])
                 /\ IsSubseq(SubSeq(wi'[s], Len(wi[s]) + 1, Len(wi'[s])),
                             CallInput(wiCall'))
       /\ SortedById(wi'.walActions)]_vars

C9_Witness ==
    /\ wiCall.op = "AddStateMachineResults"
    /\ Len(wi.walActions) = 2
    /\ wi.walActions[1].type = "TruncateWriteAhead"
    /\ wi.walActions[2].type = "AppendWriteAhead"
    /\ wi.walActions[1].id < wi.walActions[2].id

\* C10: AddWALResults appends its actions to the Net stream, AddClientResults
\* its events to ReqStoreEvents, and AddHashResults, AddNetResults,
\* AddAppResults and AddReqStoreResults their events to ResultEvents; the
\* other six streams are left as they were.
C10_ResultRouting ==
    [][/\ wiCall'.op = "AddWALResults" =>
              wi' = [wi EXCEPT !.netActions = wi.netActions \o wiCall'.actions]
       /\ wiCall'.op = "AddClientResults" =>
              wi' = [wi EXCEPT !.reqStoreEvents =
                                   wi.reqStoreEvents \o wiCall'.events]
       /\ wiCall'.op \in {"AddHashResults", "AddNetResults", "AddAppResults",
                          "AddReqStoreResults"} =>
              wi' = [wi EXCEPT !.resultEvents =
                                   wi.resultEvents \o wiCall'.events]]_vars

C10_Witness ==
    /\ wiCall.op = "AddClientResults"
    /\ wiCall.events # <<>>
    /\ Len(wi.reqStoreEvents) > Len(wiCall.events)

-----------------------------------------------------------------------------
(* Further properties of the checkpoint window.                            *)

\* C11: Committed(bucket) removes bucket, and nothing else, from
\* PendingCommits; it returns exactly one Checkpoint action, carrying the
\* sequence number of the window, when PendingCommits is empty afterwards,
\* and an empty action list when some bucket is still pending.
C11_CommittedOutcome ==
    [][cwCall'.op = "Committed" =>
           /\ cw'.PendingCommits = cw.PendingCommits \ {cwCall'.bucket}
           /\ ~cwCall'.panicked
           /\ cwCall'.ret.Broadcast = <<>>
           /\ cwCall'.ret.Checkpoint =
                  IF cw'.PendingCommits = {} THEN <<cw.Number>> ELSE <<>>]_vars

C11_Witness ==
    /\ cwCall.op = "Committed"
    /\ cwCall.bucket \notin cw.PendingCommits
    /\ cw.PendingCommits = {}
    /\ cwCall.ret.Checkpoint = <<cw.Number>>

\* C12: a new window has every bucket of its epoch pending, no attestation
\* and no CommittedValue; a bucket leaves PendingCommits only by a call of
\* Committed for it, and a Checkpoint action is returned only by Committed
\* with no bucket pending: not before Committed was called for every bucket.
C12_NoCheckpointBeforeAllCommitted ==
    /\ [](cwCall.op = "none" =>
              /\ cw.PendingCommits = cw.EpochConfig.Buckets
              /\ cw.PendingCommits = BucketIDs
              /\ \A k \in DOMAIN cw.Values : cw.Values[k] = <<>>
              /\ cw.CommittedValue.nil)
    /\ [](cwCall.ret.Checkpoint # <<>> =>
              cwCall.op = "Committed" /\ cw.PendingCommits = {})
    /\ [][\A b \in cw.PendingCommits \ cw'.PendingCommits :
              cwCall'.op = "Committed" /\ cwCall'.bucket = b]_vars

C12_Witness ==
    /\ cwCall.op = "Committed"
    /\ cwCall.ret.Checkpoint # <<>>
    /\ cwCall.ret.Checkpoint[1] \in SeqNoSet
    /\ cw.PendingCommits # cw.EpochConfig.Buckets

\* The values with more than 2f+1 attestations.
QuorumValues(w) ==
    {v \in ValueSet : Len(w.Values[String(v)]) > 2 * w.EpochConfig.F + 1}

\* C20: when every node of the 3f+1 contributes at most one attestation, at
\* most one value has more than 2f+1 attestations, CommittedValue is that
\* value or unset, and once set it never becomes a different value.
C20_OneQuorumValue ==
    /\ [](/\ Cardinality(QuorumValues(cw)) <= 1
          /\ ~cw.CommittedValue.nil => QuorumValues(cw) = {cw.CommittedValue})
    /\ [][~cw.CommittedValue.nil =>
              cw'.CommittedValue = cw.CommittedValue]_vars

C20_Witness ==
    /\ ~cw.CommittedValue.nil
    /\ Cardinality(sent) = 3 * cw.EpochConfig.F + 1
    /\ QuorumValues(cw) = {cw.CommittedValue}

-----------------------------------------------------------------------------
(* Properties of StandardInitialNetworkState.                              *)

\* What the claim says of the result for the argument nodeCount.
NetworkStateAsClaimed(nodeCount, ret) ==
    /\ Len(ret.Config.Nodes) = nodeCount
    /\ \A i \in 1 .. nodeCount : ret.Config.Nodes[i] = i - 1
    /\ ret.Config.F = TruncDiv(nodeCount - 1, 3)
    /\ 3 * ret.Config.F + 1 <= Len(ret.Config.Nodes)
    /\ ret.Config.NumberOfBuckets = nodeCount
    /\ ret.Config.CheckpointInterval = 5 * ret.Config.NumberOfBuckets
    /\ ret.Config.MaxEpochLength = 10 * ret.Config.CheckpointInterval

\* C14 as stated: for every nodeCount >= 0 the result has nodes
\* 0..nodeCount-1, f = (nodeCount-1)/3, 3f+1 <= |nodes|, nodeCount buckets,
\* a checkpoint interval of 5 times the buckets and a maximum epoch length of
\* 10 times the checkpoint interval.
C14_StandardNetworkState ==
    net.op = "StandardInitialNetworkState" =>
        NetworkStateAsClaimed(net.nodeCount, net.ret)

-----------------------------------------------------------------------------
(* Properties of the mircat tool.                                          *)

Given(flag) == ~flag.nil

\* C17: for a command line the flag parser accepts, parseArgs returns an
\* error and no arguments when --eventType and --notEventType are both given,
\* when --stepType and --notStepType are both given, or when --statusIndex is
\* given without --interactive; for every other combination it returns the
\* arguments, made of the flags, and no error.
C17_RejectedFlagCombinations ==
    (pa.op = "parseArgs" /\ ~pa.flags.parseErr) =>
        LET f == pa.flags
            rejected ==
                \/ Given(f.eventTypes) /\ Given(f.notEventTypes)
                \/ Given(f.stepTypes) /\ Given(f.notStepTypes)
                \/ Given(f.statusIndices) /\ ~f.interactive
        IN  /\ rejected => pa.ret.err # "nil" /\ pa.ret.args = <<>>
            /\ ~rejected =>
                   /\ pa.ret.err = "nil"
                   /\ Len(pa.ret.args) = 1
                   /\ \A name \in DOMAIN pa.ret.args[1] :
                          pa.ret.args[1][name] = f[name]

C17_Witness ==
    /\ pa.op = "parseArgs"
    /\ ~pa.flags.parseErr
    /\ Given(pa.flags.statusIndices)
    /\ ~pa.flags.interactive
    /\ ~Given(pa.flags.eventTypes)
    /\ ~Given(pa.flags.stepTypes)
    /\ pa.ret.err # "nil"

\* The step is a pass of the loop of execute for the event e.
Reads(e) == rp.phase = "reading" /\ rp'.read = Append(rp.read, e)

\* The event e reaches stateMachines.apply in the state rp.
Replayed(e) ==
    /\ rp.args[1].interactive
    /\ ~excludedByNodeID(e, rp.args[1].nodeIDs)

Uninitialized(e) == e.Type # "Initialize" /\ e.NodeId \notin DOMAIN rp.nodes

\* C15: a replayed event of a type other than Initialize for a node without
\* an Initialize event before it aborts the replay, and no state machine
\* applies it; nothing happens after the abort.
C15_UninitializedNodeIsFatal ==
    /\ [][\A e \in LogEvents :
              (Reads(e) /\ Replayed(e) /\ Uninitialized(e)) =>
                  /\ rp'.phase = "panicked"
                  /\ rp'.nodes = rp.nodes
                  /\ rp'.applied = rp.applied]_vars
    /\ [][rp.phase = "panicked" => rp' = rp]_vars

C15_Witness ==
    /\ rp.phase = "panicked"
    /\ rp.args[1].nodeIDs.nil
    /\ Len(rp.read) = 2
    /\ rp.read[1] = RecordedEvent(0, "Initialize", "none")
    /\ rp.read[2] = RecordedEvent(1, "LoadEntry", "none")
    /\ rp.applied = <<1>>
    /\ DOMAIN rp.nodes = {0}

\* C16 as stated: a replayed Initialize event for a node that is already
\* initialised aborts the replay and is not applied.
C16_DuplicateInitializeIsFatal ==
    [][\A e \in LogEvents :
           (/\ Reads(e) /\ Replayed(e)
            /\ e.Type = "Initialize" /\ e.NodeId \in DOMAIN rp.nodes) =>
               /\ rp'.phase = "panicked"
               /\ rp'.nodes = rp.nodes]_vars

\* The event e has been applied in the step, as the last event of its node.
AppliedInStep(e) ==
    /\ rp'.applied = Append(rp.applied, Len(rp'.read))
    /\ e.NodeId \in DOMAIN rp'.nodes
    /\ rp'.nodes[e.NodeId] # <<>>
    /\ rp'.nodes[e.NodeId][Len(rp'.nodes[e.NodeId])] = e
    /\ \A n \in DOMAIN rp.nodes \ {e.NodeId} :
           n \in DOMAIN rp'.nodes /\ rp'.nodes[n] = rp.nodes[n]

\* The event line of the event read in the step has been written.
PrintedInStep ==
    /\ Len(rp'.output) > Len(rp.output)
    /\ rp'.output[Len(rp.output) + 1] = OutputLine("event", Len(rp'.read))

\* The lines written in the step.
LinesOfStep == SubSeq(rp'.output, Len(rp.output) + 1, Len(rp'.output))

IndexCountsEveryEvent ==
    /\ IsPrefix(rp.output, rp'.output)
    /\ \A i \in 1 .. Len(LinesOfStep) : LinesOfStep[i].n = Len(rp'.read)

-----------------------------------------------------------------------------
(* Ownership of the lists of the WorkItems.                                *)

\* C18: once the worker of a stream has taken the list of the stream and the
\* stream has been cleared, no step but the worker's own changes the list
\* the worker holds, and the Clear itself does not change it; the Clear lets
\* the field point to a new empty list that no field and no worker points
\* to, and leaves the lists of the other six streams and of their workers as
\* they are; and a step that is not the Clear of a stream only appends to
\* the list of the stream, so that no item is lost.
C18_WorkerOwnsItsBatch ==
    [][\A s \in StreamNames :
           /\ (/\ hp.held[s].obj # 0
               /\ hp'.held[s].obj = hp.held[s].obj
               /\ hp'.held[s].cleared) =>
                  hp'.heap[hp.held[s].obj] = hp.heap[hp.held[s].obj]
           /\ (hp.held[s].obj # 0 /\ ~hp.held[s].cleared /\ hp'.held[s].cleared) =>
                  hp'.ref[s] # hp.held[s].obj
           /\ hp'.ref[s] # hp.ref[s] =>
                  /\ hp'.heap[hp'.ref[s]] = <<>>
                  /\ hp'.ref[s] \notin Live(hp)
                  /\ \A t \in StreamNames \ {s} :
                         /\ hp'.ref[t] = hp.ref[t]
                         /\ hp'.heap[hp.ref[t]] = hp.heap[hp.ref[t]]
                         /\ hp'.held[t] = hp.held[t]
           /\ hp'.ref[s] = hp.ref[s] =>
                  IsPrefix(hp.heap[hp.ref[s]], hp'.heap[hp.ref[s]])]_vars

C18_Witness ==
    /\ hp.held["walActions"].obj # 0
    /\ hp.held["walActions"].cleared
    /\ hp.ref["walActions"] # hp.held["walActions"].obj
    /\ Ids(hp.heap[hp.held["walActions"].obj]) = {1}
    /\ Ids(hp.heap[hp.ref["walActions"]]) = {2}

-----------------------------------------------------------------------------
(* Repeated calls and frame of the operations of the checkpoint window.    *)

\* C21: over any sequence of Committed calls on one window the Checkpoint
\* action is returned at most once.  PendingCommits starts non-empty, never
\* grows, and a call that returns the action leaves it empty: so the action
\* is returned at most once exactly if every Committed call that returns it
\* starts with a commit pending.
C21_CheckpointAtMostOnce ==
    [][(cwCall'.op = "Committed" /\ cwCall'.ret.Checkpoint # <<>>) =>
           cw.PendingCommits # {}]_vars

\* C22: ApplyCheckpointResult changes no field of the window, also when it
\* panics; ApplyCheckpointMsg leaves PendingCommits, Number and EpochConfig
\* unchanged and returns an empty action list; Committed leaves the
\* attestation map, CommittedValue, Number and EpochConfig unchanged.
C22_OperationFrames ==
    [][/\ cwCall'.op = "ApplyCheckpointResult" => cw' = cw
       /\ cwCall'.op = "ApplyCheckpointMsg" =>
              /\ cw'.PendingCommits = cw.PendingCommits
              /\ cw'.Number = cw.Number
              /\ cw'.EpochConfig = cw.EpochConfig
              /\ cwCall'.ret = EmptyActions
              /\ \A k \in KeySet \ {String(cwCall'.value)} :
                     cw'.Values[k] = cw.Values[k]
       /\ cwCall'.op = "Committed" =>
              /\ cw'.Values = cw.Values
              /\ cw'.CommittedValue = cw.CommittedValue
              /\ cw'.Number = cw.Number
              /\ cw'.EpochConfig = cw.EpochConfig]_vars

C22_Witness ==
    /\ cwCall.op = "ApplyCheckpointResult"
    /\ ~cwCall.panicked
    /\ cwCall.ret.Broadcast # <<>>
    /\ cw.CommittedValue.nil
    /\ NumAttestations(cw) > 0
    /\ cw.PendingCommits # {}
    /\ cw.PendingCommits # cw.EpochConfig.Buckets

====
